---- MODULE Spec2Model ----
(***************************************************************************)
(* A model of two MultiQC plugins:                                         *)
(*   - multiqc/modules/readqc/readqc.py : QcmlMultiqcModule (qcML parsing, *)
(*     read-type detection) and MultiqcModule.__init__ (table assembly);   *)
(*   - multiqc/modules/bbmap/plot_idhist.py : plot_idhist.                 *)
(*                                                                         *)
(* Python strings that the code inspects (startswith, "in", re.sub) are    *)
(* sequences of one-character strings; strings that are only copied        *)
(* (descriptions, accessions, host call names) are TLA+ strings.           *)
(* A Python dict is a function whose DOMAIN is the set of its keys.        *)
(***************************************************************************)
EXTENDS Integers, Sequences, FiniteSets, TLC

VARIABLES
    pc,          \* position in MultiqcModule.__init__
    qcml,        \* self.qcml      : parameter name -> {description, accession}
    qcdata,      \* self.qcdata    : sample name -> (parameter name -> value)
    read_types,  \* self.read_types: sample name -> read type
    f,           \* the file of the running iteration of the parse loop (line 112)
    hist,        \* history: the files find_log_files has yielded, in order
    qcdata0,     \* history: self.qcdata as the ignore filter left it
    todo,        \* samples the loop of line 133 has not visited yet
    headers,     \* the local dict "headers" (line 145)
    calls,       \* host methods invoked so far, in order
    err,         \* the exception that ended __init__, "" when none
    contents,    \* get_read_type alone: its argument qcml_contents
    read_type,   \* get_read_type alone: its return value
    samples,     \* plot_idhist: its argument samples, sample -> {"data": ...}
    plot_data    \* plot_idhist: the list it hands to linegraph.plot

vars ==
    << pc, qcml, qcdata, read_types, f, hist, qcdata0, todo, headers, calls, err,
       contents, read_type, samples, plot_data >>

----------------------------------------------------------------------------
(* String literals of the source, as character sequences.                  *)

s_read_count ==
    << "r", "e", "a", "d", " ", "c", "o", "u", "n", "t" >>
s_bases_sequenced_MB ==
    << "b", "a", "s", "e", "s", " ", "s", "e", "q", "u", "e", "n", "c", "e", "d", " ", "(", "M", "B", ")" >>
s_bases_sequenced ==
    << "b", "a", "s", "e", "s", " ", "s", "e", "q", "u", "e", "n", "c", "e", "d" >>
s_cluster_count ==
    << "c", "l", "u", "s", "t", "e", "r", " ", "c", "o", "u", "n", "t" >>
s_gc_content_pct ==
    << "g", "c", " ", "c", "o", "n", "t", "e", "n", "t", " ", "%" >>
s_Q20_read_pct ==
    << "Q", "2", "0", " ", "r", "e", "a", "d", " ", "%" >>
s_Q30_base_pct ==
    << "Q", "3", "0", " ", "b", "a", "s", "e", " ", "%" >>
s_read_length ==
    << "r", "e", "a", "d", " ", "l", "e", "n", "g", "t", "h" >>
s_no_base_call_pct ==
    << "n", "o", " ", "b", "a", "s", "e", " ", "c", "a", "l", "l", " ", "%" >>
s_percentage ==
    << " ", "p", "e", "r", "c", "e", "n", "t", "a", "g", "e" >>
s_pct ==
    << " ", "%" >>
s_na ==
    << "n", "/", "a" >>
s_source_file ==
    << "s", "o", "u", "r", "c", "e", " ", "f", "i", "l", "e" >>
s_R1 ==
    << "R", "1" >>
s_R2 ==
    << "R", "2" >>

(* Names and values that occur only in input files.                        *)
s_gc_content_percentage ==
    << "g", "c", " ", "c", "o", "n", "t", "e", "n", "t", " ", "p", "e", "r", "c", "e", "n", "t", "a", "g", "e" >>
s_Q20_read_percentage ==
    << "Q", "2", "0", " ", "r", "e", "a", "d", " ", "p", "e", "r", "c", "e", "n", "t", "a", "g", "e" >>
s_Q30_base_percentage ==
    << "Q", "3", "0", " ", "b", "a", "s", "e", " ", "p", "e", "r", "c", "e", "n", "t", "a", "g", "e" >>
s_no_base_call_percentage ==
    << "n", "o", " ", "b", "a", "s", "e", " ", "c", "a", "l", "l", " ", "p", "e", "r", "c", "e", "n", "t", "a", "g", "e" >>
s_X_percentage ==
    << "X", " ", "p", "e", "r", "c", "e", "n", "t", "a", "g", "e" >>
s_X_pct ==
    << "X", " ", "%" >>
s_X_percent ==
    << "X", " ", "p", "e", "r", "c", "e", "n", "t" >>
s_X_percentage_Y ==
    << "X", " ", "p", "e", "r", "c", "e", "n", "t", "a", "g", "e", " ", "Y" >>
s_X_percentage_nl ==
    << "X", " ", "p", "e", "r", "c", "e", "n", "t", "a", "g", "e", "\n" >>
s_other ==
    << "o", "t", "h", "e", "r" >>
s_abc ==
    << "a", "b", "c" >>
s_NA_upper ==
    << "N", "/", "A" >>

----------------------------------------------------------------------------
(* Python str and dict primitives.                                         *)

\* s.startswith(p)
startswith(s, p) ==
    Len(s) >= Len(p) /\ SubSeq(s, 1, Len(p)) = p

\* s.endswith(p)
endswith(s, p) ==
    Len(s) >= Len(p) /\ SubSeq(s, Len(s) - Len(p) + 1, Len(s)) = p

\* p in s
contains(s, p) ==
    \E i \in 1..(Len(s) - Len(p) + 1) : SubSeq(s, i, i + Len(p) - 1) = p

EmptyDict ==
    [k \in {} |-> 0]

\* d[k] = v
DictSet(d, k, v) ==
    [x \in (DOMAIN d) \cup {k} |-> IF x = k THEN v ELSE d[x]]

\* d.pop(k), for k in d
DictPop(d, k) ==
    [x \in (DOMAIN d) \ {k} |-> d[x]]

----------------------------------------------------------------------------
(* Values of a sample row: a float or the raw string (lines 33-36).        *)
(* A float is held exactly, as a count of 1/Scale.                         *)

Scale ==
    100

FloatVal(n) ==
    [num |-> TRUE, n |-> n, s |-> << >>]

StrVal(s) ==
    [num |-> FALSE, n |-> 0, s |-> s]

Digit ==
    {"0", "1", "2", "3", "4", "5", "6", "7", "8", "9"}

DigitVal(c) ==
    CASE c = "0" -> 0 [] c = "1" -> 1 [] c = "2" -> 2 [] c = "3" -> 3 [] c = "4" -> 4
      [] c = "5" -> 5 [] c = "6" -> 6 [] c = "7" -> 7 [] c = "8" -> 8 [] c = "9" -> 9

RECURSIVE DigitsVal(_)
DigitsVal(ds) ==
    IF ds = << >> THEN 0
    ELSE 10 * DigitsVal(SubSeq(ds, 1, Len(ds) - 1)) + DigitVal(ds[Len(ds)])

\* The decimal literals float() accepts among the values of the input files:
\* digits with at most one ".", at least one digit. Anything else raises
\* ValueError (signs, exponents, "inf", "nan" and blanks are not in the inputs).
IsFloatLiteral(s) ==
    /\ \A i \in 1..Len(s) : s[i] \in Digit \cup {"."}
    /\ \E i \in 1..Len(s) : s[i] \in Digit
    /\ Cardinality({i \in 1..Len(s) : s[i] = "."}) <= 1

\* float(s) for a decimal literal with at most two fractional digits.
float(s) ==
    LET dot  == IF \E i \in 1..Len(s) : s[i] = "."
                THEN CHOOSE i \in 1..Len(s) : s[i] = "."
                ELSE Len(s) + 1
        ip   == SubSeq(s, 1, dot - 1)
        fp   == SubSeq(s, dot + 1, Len(s))
        fp2  == SubSeq(fp \o << "0", "0" >>, 1, 2)
    IN  DigitsVal(ip) * Scale + DigitsVal(fp2)

\* lines 33-36: try float(value) except ValueError: value
coerce(value) ==
    IF IsFloatLiteral(value) THEN FloatVal(float(value)) ELSE StrVal(value)

----------------------------------------------------------------------------
(* qcML documents. A document is the sequence of its parameter elements in *)
(* document order; an element is its tag and its attribute dict.           *)

QualityParameter ==
    "qualityParameter"

MetaDataParameter ==
    "metaDataParameter"

Element(tag, attrib) ==
    [tag |-> tag, attrib |-> attrib]

\* root.findall(".//{http://www.prime-xs.eu/ms/qcml}<tag>")
findall(root, tag) ==
    SelectSeq(root, LAMBDA e : e.tag = tag)

\* Mutant of re_sub_percentage: the pattern without its "$" anchor, which
\* rewrites the first " percentage" wherever it stands.
re_sub_unanchored(name) ==
    LET p   == Len(s_percentage)
        idx == {i \in 1..(Len(name) - p + 1) : SubSeq(name, i, i + p - 1) = s_percentage}
    IN  IF idx = {} THEN name
        ELSE LET i == CHOOSE i \in idx : \A j \in idx : i <= j
             IN  SubSeq(name, 1, i - 1) \o s_pct \o SubSeq(name, i + p, Len(name))

\* line 31: re.sub(r' percentage$', ' %', name). "$" matches at the end of the
\* string and also just before a newline that ends the string.
re_sub_percentage(name) ==
    LET n == Len(name)
        p == Len(s_percentage)
    IN  IF endswith(name, s_percentage)
        THEN SubSeq(name, 1, n - p) \o s_pct
        ELSE IF /\ n > p
                /\ name[n] = "\n"
                /\ endswith(SubSeq(name, 1, n - 1), s_percentage)
             THEN SubSeq(name, 1, n - 1 - p) \o s_pct \o << "\n" >>
             ELSE name

\* Mutant of add_attribute: no else branch, an absent attribute is left out.
RECURSIVE add_attribute_if_present(_, _, _, _)
add_attribute_if_present(q, parameter_name, content, attributes) ==
    IF attributes = << >> THEN q
    ELSE LET attrib == Head(attributes)
             q2     == IF attrib \in DOMAIN content.attrib
                       THEN [q EXCEPT ![parameter_name] =
                                DictSet(@, attrib, content.attrib[attrib])]
                       ELSE q
         IN  add_attribute_if_present(q2, parameter_name, content, Tail(attributes))

\* lines 43-48
RECURSIVE add_attribute(_, _, _, _)
add_attribute(q, parameter_name, content, attributes) ==
    IF attributes = << >> THEN q
    ELSE LET attrib == Head(attributes)
             v      == IF attrib \in DOMAIN content.attrib
                       THEN content.attrib[attrib]
                       ELSE ""
             q2     == [q EXCEPT ![parameter_name] = DictSet(@, attrib, v)]
         IN  add_attribute(q2, parameter_name, content, Tail(attributes))

\* Mutant of parse_step: no test for n/a values.
parse_step_no_skip(st, qp) ==
    LET qp_name == re_sub_percentage(qp.attrib["name"])
        q1      == DictSet(st.qcml, qp_name, EmptyDict)
    IN  [parameters |-> DictSet(st.parameters, qp_name, coerce(qp.attrib["value"])),
         qcml       |-> add_attribute(q1, qp_name, qp, << "description", "accession" >>)]

\* One iteration of the loop of line 25, on the pair (parameters, self.qcml).
parse_step(st, qp) ==
    IF startswith(qp.attrib["value"], s_na)
    THEN st
    ELSE LET qp_name == re_sub_percentage(qp.attrib["name"])
             q1      == DictSet(st.qcml, qp_name, EmptyDict)
         IN  [parameters |-> DictSet(st.parameters, qp_name, coerce(qp.attrib["value"])),
              qcml       |-> add_attribute(q1, qp_name, qp, << "description", "accession" >>)]

RECURSIVE parse_loop(_, _)
parse_loop(st, qps) ==
    IF qps = << >> THEN st
    ELSE parse_loop(parse_step(st, Head(qps)), Tail(qps))

\* lines 20-41; returns the dict "parameters" and the updated self.qcml
parse_qcml_by(q, qcml_contents, tag) ==
    parse_loop([parameters |-> EmptyDict, qcml |-> q], findall(qcml_contents, tag))

\* lines 52-60: the values of the "source file" entries that are not n/a
collect_source_files(qcml_contents) ==
    LET keep(qp) == /\ ~ startswith(qp.attrib["value"], s_na)
                    /\ qp.attrib["name"] = s_source_file
        kept     == SelectSeq(findall(qcml_contents, MetaDataParameter), keep)
    IN  [i \in 1..Len(kept) |-> kept[i].attrib["value"]]

\* lines 63-69: the if / elif over the source files
RECURSIVE scan_reads(_, _)
scan_reads(st, source_files) ==
    IF source_files = << >> THEN st
    ELSE LET source_file == Head(source_files)
             st2 == IF contains(source_file, s_R1)
                    THEN [st EXCEPT !.r1_exist = TRUE]
                    ELSE IF contains(source_file, s_R2)
                         THEN [st EXCEPT !.r2_exist = TRUE]
                         ELSE st
         IN  scan_reads(st2, Tail(source_files))

\* lines 50-75
get_read_type(qcml_contents) ==
    LET st == scan_reads([r1_exist |-> FALSE, r2_exist |-> FALSE],
                         collect_source_files(qcml_contents))
    IN  IF st.r1_exist /\ st.r2_exist THEN "paired-end"
        ELSE IF st.r1_exist \/ st.r2_exist THEN "single"
        ELSE "unknown"

----------------------------------------------------------------------------
(* Input files of MultiqcModule.__init__: what find_log_files yields.      *)

MaxFiles ==
    2

SampleNames ==
    {"A", "B"}

v_100 ==
    << "1", "0", "0" >>
v_2_5 ==
    << "2", ".", "5" >>
v_41 ==
    << "4", "1" >>
v_7 ==
    << "7" >>

\* an element that carries all four attributes
qp(tag, name, value) ==
    Element(tag, [name |-> name, value |-> value, description |-> "desc", accession |-> "QC:1"])

\* an element without accession, and one with neither description nor accession
qp_no_accession(tag, name, value) ==
    Element(tag, [name |-> name, value |-> value, description |-> "desc"])

qp_bare(tag, name, value) ==
    Element(tag, [name |-> name, value |-> value])

\* The quality parameters ReadQC writes for one sample.
StdBlock ==
    << qp(QualityParameter, s_read_count, v_100),
       qp(QualityParameter, s_bases_sequenced_MB, v_2_5),
       qp(QualityParameter, s_gc_content_percentage, v_41),
       qp(QualityParameter, s_Q20_read_percentage, v_41),
       qp(QualityParameter, s_Q30_base_percentage, v_41),
       qp(QualityParameter, s_read_length, v_100),
       qp(QualityParameter, s_no_base_call_percentage, v_7) >>

StdNames ==
    {StdBlock[i].attrib["name"] : i \in 1..Len(StdBlock)}

Without(name) ==
    SelectSeq(StdBlock, LAMBDA e : e.attrib["name"] # name)

\* the full block, the block with one parameter missing, and no parameter at all
StdBlocks ==
    {StdBlock, << >>} \cup {Without(n) : n \in StdNames}

src(value) ==
    qp(MetaDataParameter, s_source_file, value)

\* source-file entries giving read type unknown, single and paired-end
MetaLists ==
    {<< >>, << src(s_R1) >>, << src(s_R1), src(s_R2) >>}

\* the full block followed by one more quality parameter
ExtraFiles ==
    {StdBlock \o << qp_no_accession(QualityParameter, s_cluster_count, v_7) >>,
     StdBlock \o << qp_no_accession(QualityParameter, s_cluster_count, v_7), src(s_R1) >>,
     StdBlock \o << qp_bare(QualityParameter, s_X_percent, v_7), src(s_R1) >>,
     StdBlock \o << qp(QualityParameter, s_bases_sequenced_MB, s_abc), src(s_R1) >>,
     StdBlock \o << qp(QualityParameter, s_read_count, s_abc), src(s_R1) >>,
     StdBlock \o << qp(QualityParameter, s_read_count, s_abc), src(s_R1), src(s_R2) >>,
     StdBlock \o << qp(QualityParameter, s_read_count, v_7), src(s_R1), src(s_R2) >>}

LogFiles ==
    {b \o m : b \in StdBlocks, m \in MetaLists} \cup ExtraFiles

NoFile ==
    [s_name |-> "", f |-> << >>]

----------------------------------------------------------------------------
(* MultiqcModule.__init__                                                  *)

Million ==
    1000000

WellKnown ==
    {s_read_count, s_cluster_count, s_bases_sequenced, s_gc_content_pct,
     s_Q20_read_pct, s_Q30_base_pct, s_read_length, s_no_base_call_pct}

RenderCalls ==
    {"general_stats_addcols", "write_data_file", "table.plot", "add_section"}

Raise(e) ==
    /\ pc' = "raised"
    /\ err' = e

\* lines 112-116: one iteration of the parse loop, for the file f with the
\* cleaned sample name s_name
ParseLogFile(s_name, file) ==
    /\ pc = "parse"
    /\ Len(calls) < MaxFiles
    /\ f' = [s_name |-> s_name, f |-> file]
    /\ calls' = Append(calls, "add_data_source")
    /\ LET r == parse_qcml_by(qcml, file, QualityParameter)
       IN  /\ qcml' = r.qcml
           /\ qcdata' = DictSet(qcdata, s_name, r.parameters)
    /\ read_types' = DictSet(read_types, s_name, get_read_type(file))
    /\ UNCHANGED << pc, qcdata0, todo, headers, err, contents, read_type, samples, plot_data >>

ReadLogFile ==
    \E s_name \in SampleNames, file \in LogFiles :
        /\ ParseLogFile(s_name, file)
        /\ UNCHANGED hist

\* line 118: the host drops the samples its configuration names; ignored is
\* the set of sample names it drops
ignore_samples(data, ignored) ==
    [s \in (DOMAIN data) \ ignored |-> data[s]]

IgnoreSamples ==
    /\ pc = "parse"
    /\ \E ignored \in SUBSET SampleNames :
        /\ qcdata' = ignore_samples(qcdata, ignored)
        /\ qcdata0' = ignore_samples(qcdata, ignored)
    /\ pc' = "filtered"
    /\ f' = NoFile
    /\ UNCHANGED << qcml, read_types, hist, todo, headers, calls, err,
                    contents, read_type, samples, plot_data >>

\* Mutant of no_data: the test looks at the samples parsed, not at the
\* samples the ignore filter kept.
no_data_before_filter(data) ==
    Cardinality(DOMAIN read_types) = 0

\* line 121: len(self.qcdata) == 0
no_data(data) ==
    Cardinality(DOMAIN data) = 0

\* lines 121-122
NoData ==
    /\ pc = "filtered"
    /\ no_data(qcdata)
    /\ Raise("UserWarning")
    /\ UNCHANGED << qcml, qcdata, read_types, f, hist, qcdata0, todo, headers, calls,
                    contents, read_type, samples, plot_data >>

\* lines 125-131: the derived header entries
DeriveKeys ==
    /\ pc = "filtered"
    /\ ~ no_data(qcdata)
    /\ IF s_bases_sequenced_MB \notin DOMAIN qcml
       THEN /\ Raise("KeyError")
            /\ UNCHANGED << qcml, todo >>
       ELSE /\ qcml' = DictSet(DictSet(DictPop(qcml, s_bases_sequenced_MB),
                                       s_bases_sequenced,
                                       [description |-> "Bases sequenced in total."]),
                               s_cluster_count,
                               [description |-> "Total number of clusters."])
            /\ todo' = DOMAIN qcdata
            /\ pc' = "derive"
            /\ UNCHANGED err
    /\ UNCHANGED << qcdata, read_types, f, hist, qcdata0, headers, calls,
                    contents, read_type, samples, plot_data >>

\* Mutant of times_1e6: megabases taken for kilobases.
times_1e3(v) ==
    FloatVal(v.n * 1000)

\* line 134: kv['bases sequenced'] = kv['bases sequenced (MB)'] * 1e6
times_1e6(v) ==
    FloatVal(v.n * Million)

\* Mutant of halve: the division is missing.
not_halved(v) ==
    FloatVal(v.n)

\* line 140: kv['read count'] / 2 (exact: the inputs have at most one
\* fractional digit, the representation two)
halve(v) ==
    FloatVal(v.n \div 2)

\* lines 134-142 for one sample: the row as the body leaves it and the
\* exception it raises, "" when none
derive_row(kv, rt) ==
    IF s_bases_sequenced_MB \notin DOMAIN kv THEN [kv |-> kv, err |-> "KeyError"]
    ELSE IF ~ kv[s_bases_sequenced_MB].num THEN [kv |-> kv, err |-> "TypeError"]
    ELSE LET kv1 == DictSet(kv, s_bases_sequenced, times_1e6(kv[s_bases_sequenced_MB]))
         IN  IF rt = "single"
             THEN IF s_read_count \notin DOMAIN kv1
                  THEN [kv |-> kv1, err |-> "KeyError"]
                  ELSE [kv  |-> DictPop(DictSet(kv1, s_cluster_count, kv1[s_read_count]),
                                        s_bases_sequenced_MB),
                        err |-> ""]
             ELSE IF rt = "paired-end"
             THEN IF s_read_count \notin DOMAIN kv1
                  THEN [kv |-> kv1, err |-> "KeyError"]
                  ELSE IF ~ kv1[s_read_count].num
                  THEN [kv |-> kv1, err |-> "TypeError"]
                  ELSE [kv  |-> DictPop(DictSet(kv1, s_cluster_count, halve(kv1[s_read_count])),
                                        s_bases_sequenced_MB),
                        err |-> ""]
             ELSE [kv |-> DictPop(kv1, s_bases_sequenced_MB), err |-> ""]

\* lines 133-142: one iteration of the loop over self.qcdata.items(); the
\* order of a dict's items is left open
DeriveSample ==
    /\ pc = "derive"
    /\ \E s_name \in todo :
        LET r == derive_row(qcdata[s_name], read_types[s_name])
        IN  /\ qcdata' = [qcdata EXCEPT ![s_name] = r.kv]
            /\ IF r.err # ""
               THEN Raise(r.err) /\ UNCHANGED todo
               ELSE todo' = todo \ {s_name} /\ UNCHANGED << pc, err >>
    /\ UNCHANGED << qcml, read_types, f, hist, qcdata0, headers, calls,
                    contents, read_type, samples, plot_data >>

\* lines 145-149: the generic descriptor of every collected parameter
generic_headers(q) ==
    [qp_key \in DOMAIN q |->
        [namespace |-> "ReadQC", title |-> qp_key, description |-> q[qp_key]["description"],
         hinted |-> FALSE]]

\* lines 150-163: headers[k].update(...) for the well-known parameters
\* (hinted stands for the display hints, which no later step reads)
hinted_headers(h) ==
    [qp_key \in DOMAIN h |->
        IF qp_key \in WellKnown THEN [h[qp_key] EXCEPT !.hinted = TRUE] ELSE h[qp_key]]

\* Mutant of BuildHeaders: the general-statistics columns are handed over
\* before the well-known headers are looked up.
BuildHeadersAfterStats ==
    /\ pc = "derive"
    /\ todo = {}
    /\ calls' = Append(calls, "general_stats_addcols")
    /\ IF WellKnown \subseteq DOMAIN qcml
       THEN /\ headers' = hinted_headers(generic_headers(qcml))
            /\ pc' = "stats"
            /\ UNCHANGED err
       ELSE /\ headers' = generic_headers(qcml)
            /\ Raise("KeyError")
    /\ UNCHANGED << qcml, qcdata, read_types, f, hist, qcdata0, todo,
                    contents, read_type, samples, plot_data >>

\* lines 145-163
BuildHeaders ==
    /\ pc = "derive"
    /\ todo = {}
    /\ IF WellKnown \subseteq DOMAIN qcml
       THEN /\ headers' = hinted_headers(generic_headers(qcml))
            /\ pc' = "headers"
            /\ UNCHANGED err
       ELSE /\ headers' = generic_headers(qcml)
            /\ Raise("KeyError")
    /\ UNCHANGED << qcml, qcdata, read_types, f, hist, qcdata0, todo, calls,
                    contents, read_type, samples, plot_data >>

\* lines 167-168
GeneralStats ==
    /\ pc = "headers"
    /\ calls' = Append(calls, "general_stats_addcols")
    /\ pc' = "stats"
    /\ UNCHANGED << qcml, qcdata, read_types, f, hist, qcdata0, todo, headers, err,
                    contents, read_type, samples, plot_data >>

\* line 173
WriteDataFile ==
    /\ pc = "stats"
    /\ calls' = Append(calls, "write_data_file")
    /\ pc' = "written"
    /\ UNCHANGED << qcml, qcdata, read_types, f, hist, qcdata0, todo, headers, err,
                    contents, read_type, samples, plot_data >>

\* lines 176-183
AddSection ==
    /\ pc = "written"
    /\ calls' = calls \o << "table.plot", "add_section" >>
    /\ pc' = "done"
    /\ UNCHANGED << qcml, qcdata, read_types, f, hist, qcdata0, todo, headers, err,
                    contents, read_type, samples, plot_data >>

\* lines 107-110
Init ==
    /\ pc = "parse"
    /\ qcml = EmptyDict
    /\ qcdata = EmptyDict
    /\ read_types = EmptyDict
    /\ f = NoFile
    /\ hist = << >>
    /\ qcdata0 = EmptyDict
    /\ todo = {}
    /\ headers = EmptyDict
    /\ calls = << >>
    /\ err = ""
    /\ contents = << >>
    /\ read_type = ""
    /\ samples = EmptyDict
    /\ plot_data = << >>

Next ==
    \/ ReadLogFile
    \/ IgnoreSamples
    \/ NoData
    \/ DeriveKeys
    \/ DeriveSample
    \/ BuildHeaders
    \/ GeneralStats
    \/ WriteDataFile
    \/ AddSection

Spec ==
    Init /\ [][Next]_vars

----------------------------------------------------------------------------
(* parse_qcml_by over arbitrary short files: the parse loop of lines        *)
(* 112-116 alone, with the files it has read kept in hist.                  *)

\* the number of elements in all the files read together
MaxElems ==
    2

v_na_x ==
    << "n", "/", "a", " ", "x" >>

ParseElements ==
    {qp(QualityParameter, s_X_percentage, v_7),
     qp(QualityParameter, s_X_percentage, v_na_x),
     qp(QualityParameter, s_X_percent, s_na),
     qp_bare(QualityParameter, s_X_percent, v_7),
     qp_no_accession(QualityParameter, s_X_percentage_Y, s_NA_upper),
     qp(QualityParameter, s_X_percentage_nl, v_7),
     qp(MetaDataParameter, s_X_percent, v_7)}

\* the sequences of at most n elements of S
RECURSIVE SeqsUpTo(_, _)
SeqsUpTo(S, n) ==
    IF n = 0 THEN {<< >>}
    ELSE LET shorter == SeqsUpTo(S, n - 1)
         IN  shorter \cup {Append(q, e) : q \in shorter, e \in S}

ParseFiles ==
    SeqsUpTo(ParseElements, MaxElems)

RECURSIVE TotalLen(_)
TotalLen(h) ==
    IF h = << >> THEN 0 ELSE Len(Head(h).f) + TotalLen(Tail(h))

ReadParseFile ==
    \E s_name \in SampleNames, file \in ParseFiles :
        /\ TotalLen(hist) + Len(file) <= MaxElems
        /\ ParseLogFile(s_name, file)
        /\ hist' = Append(hist, [s_name |-> s_name, f |-> file])

ParseNext ==
    ReadParseFile

SpecParse ==
    Init /\ [][ParseNext]_vars

----------------------------------------------------------------------------
(* get_read_type on its own, for arbitrary short lists of source files.    *)

MaxParts ==
    2

MaxSrc ==
    2

SourceParts ==
    {s_R1, s_R2, << "R" >>}

RECURSIVE Concats(_, _)
Concats(P, n) ==
    IF n = 0 THEN {<< >>}
    ELSE LET shorter == Concats(P, n - 1)
         IN  shorter \cup {q \o e : q \in shorter, e \in P}

SourceValues ==
    Concats(SourceParts, MaxParts)

\* "source file" entries, one of them n/a, an entry of another name and a
\* quality parameter that is named "source file"
MetaElements ==
    {src(v) : v \in SourceValues}
        \cup {src(s_na \o s_R2),
              qp(MetaDataParameter, s_other, s_R2),
              qp(QualityParameter, s_source_file, s_R1)}

InitReadType ==
    /\ pc = "read_type"
    /\ contents \in SeqsUpTo(MetaElements, MaxSrc)
    /\ read_type = ""
    /\ qcml = EmptyDict
    /\ qcdata = EmptyDict
    /\ read_types = EmptyDict
    /\ f = NoFile
    /\ hist = << >>
    /\ qcdata0 = EmptyDict
    /\ todo = {}
    /\ headers = EmptyDict
    /\ calls = << >>
    /\ err = ""
    /\ samples = EmptyDict
    /\ plot_data = << >>

\* lines 50-75
DetectReadType ==
    /\ pc = "read_type"
    /\ read_type' = get_read_type(contents)
    /\ pc' = "read_type_done"
    /\ UNCHANGED << qcml, qcdata, read_types, f, hist, qcdata0, todo, headers, calls, err,
                    contents, samples, plot_data >>

ReadTypeNext ==
    DetectReadType

SpecReadType ==
    InitReadType /\ [][ReadTypeNext]_vars

----------------------------------------------------------------------------
(* plot_idhist (multiqc/modules/bbmap/plot_idhist.py)                      *)

MaxX ==
    2

MaxCount ==
    1

IdhistSamples ==
    {<< "s", "1" >>, << "s", "2" >>}

\* [read count, base count] of one histogram line, MaxCount at most in all
CountPairs ==
    {p \in (0..MaxCount) \X (0..MaxCount) : p[1] + p[2] <= MaxCount}

\* the "data" dicts: x -> [reads, bases] for some of the x-values
DataDicts ==
    UNION {[xs -> CountPairs] : xs \in SUBSET (1..MaxX)}

\* lines 13-15: the x-values of the items of all samples
all_x_of(smp) ==
    LET items == UNION {{<< x, smp[sample]["data"][x] >> : x \in DOMAIN smp[sample]["data"]} :
                        sample \in DOMAIN smp}
    IN  {item[1] : item \in items}

\* lines 17-24, in the order of the dict literal; a column is a list index
columns_to_plot ==
    << [column_type |-> "Reads", column |-> 0, column_name |-> << "C", "o", "u", "n", "t" >>],
       [column_type |-> "Bases", column |-> 1, column_name |-> << "C", "o", "u", "n", "t" >>] >>

\* Mutant of value_or_zero: the column index is ignored.
value_of_first_column(data, x, column) ==
    IF x \in DOMAIN data THEN data[x][1] ELSE 0

\* line 33: the value at x, list index column (lists are 1-based here)
value_or_zero(data, x, column) ==
    IF x \in DOMAIN data THEN data[x][column + 1] ELSE 0

\* lines 29-37: the dict comprehension of one column type
series(smp, all_x, col) ==
    LET keys == {sample \o << "." >> \o col.column_name : sample \in DOMAIN smp}
        sample_of(key) == CHOOSE sample \in DOMAIN smp :
                              key = sample \o << "." >> \o col.column_name
    IN  [key \in keys |->
            [x \in all_x |-> value_or_zero(smp[sample_of(key)]["data"], x, col.column)]]

\* lines 13-38
build_plot_data(smp) ==
    [i \in 1..Len(columns_to_plot) |-> series(smp, all_x_of(smp), columns_to_plot[i])]

InitPlot ==
    /\ pc = "plot"
    /\ \E present \in SUBSET IdhistSamples :
           samples \in [present -> {[data |-> d] : d \in DataDicts}]
    /\ plot_data = << >>
    /\ qcml = EmptyDict
    /\ qcdata = EmptyDict
    /\ read_types = EmptyDict
    /\ f = NoFile
    /\ hist = << >>
    /\ qcdata0 = EmptyDict
    /\ todo = {}
    /\ headers = EmptyDict
    /\ calls = << >>
    /\ err = ""
    /\ contents = << >>
    /\ read_type = ""

\* lines 6-53: plot_data as handed to linegraph.plot
PlotIdhist ==
    /\ pc = "plot"
    /\ plot_data' = build_plot_data(samples)
    /\ pc' = "plotted"
    /\ calls' = Append(calls, "linegraph.plot")
    /\ UNCHANGED << qcml, qcdata, read_types, f, hist, qcdata0, todo, headers, err,
                    contents, read_type, samples >>

PlotNext ==
    PlotIdhist

SpecPlot ==
    InitPlot /\ [][PlotNext]_vars

----------------------------------------------------------------------------
(* Properties of MultiqcModule.__init__ (specification Spec).              *)

\* the loop of lines 133-142 has visited every retained sample
Derived ==
    \/ pc \in {"headers", "stats", "written", "done"}
    \/ pc = "derive" /\ todo = {}

NoRenderCall ==
    \A i \in 1..Len(calls) : calls[i] \notin RenderCalls

\* C1: once the ignore filter has been applied and every retained sample has
\* been post-processed, every key of the metadata table (the keys of the
\* header configuration) is a key of the row of every retained sample.
C1_HeaderKeysInEveryRow ==
    Derived =>
        \A s_name \in DOMAIN qcdata : DOMAIN qcml \subseteq DOMAIN qcdata[s_name]

\* C4: when no sample remains after the parse loop and the ignore filter,
\* __init__ raises UserWarning, and no rendering method of the host has been
\* invoked by then; UserWarning is raised in no other case.
C4_NoDataSignal ==
    /\ (pc \notin {"parse", "filtered"} /\ DOMAIN qcdata = {}) => err = "UserWarning"
    /\ err = "UserWarning" => (DOMAIN qcdata = {} /\ NoRenderCall)

\* a file was parsed, its sample was ignored, and UserWarning was raised
C4_Witness ==
    /\ pc = "raised"
    /\ err = "UserWarning"
    /\ DOMAIN read_types # {}

\* C5, as claimed: a row's 'cluster count' is its read count when the read
\* type detected for that sample is single, half its read count when it is
\* paired-end, and absent when it is unknown.
C5_ClusterCountAsClaimed ==
    Derived =>
        \A s_name \in DOMAIN qcdata :
            LET kv == qcdata[s_name]
                rt == read_types[s_name]
            IN  /\ rt = "single" =>
                      /\ s_cluster_count \in DOMAIN kv
                      /\ kv[s_cluster_count] = kv[s_read_count]
                /\ rt = "paired-end" =>
                      /\ s_cluster_count \in DOMAIN kv
                      /\ kv[s_cluster_count].num
                      /\ 2 * kv[s_cluster_count].n = kv[s_read_count].n
                /\ rt = "unknown" => s_cluster_count \notin DOMAIN kv

\* C5, amended: as above for single and paired-end; for read type unknown the
\* row's 'cluster count' is what the parse pass left: absent unless the
\* sample's file has a quality parameter of that name, whose value it keeps.
C5_ClusterCount ==
    Derived =>
        \A s_name \in DOMAIN qcdata :
            LET kv  == qcdata[s_name]
                kv0 == qcdata0[s_name]
                rt  == read_types[s_name]
            IN  /\ rt = "single" =>
                      /\ s_cluster_count \in DOMAIN kv
                      /\ kv[s_cluster_count] = kv[s_read_count]
                /\ rt = "paired-end" =>
                      /\ s_cluster_count \in DOMAIN kv
                      /\ kv[s_cluster_count].num
                      /\ 2 * kv[s_cluster_count].n = kv[s_read_count].n
                /\ rt = "unknown" =>
                      /\ s_cluster_count \in DOMAIN kv <=> s_cluster_count \in DOMAIN kv0
                      /\ s_cluster_count \in DOMAIN kv =>
                             kv[s_cluster_count] = kv0[s_cluster_count]

\* a paired-end sample and a sample of unknown read type whose file has its
\* own 'cluster count' have both been post-processed
C5_Witness ==
    /\ Derived
    /\ \E s1 \in DOMAIN qcdata, s2 \in DOMAIN qcdata :
        /\ read_types[s1] = "paired-end"
        /\ qcdata[s1][s_cluster_count].n = 50 * Scale
        /\ read_types[s2] = "unknown"
        /\ s_cluster_count \in DOMAIN qcdata[s2]

\* C6: after post-processing every retained row has 'bases sequenced', equal
\* to its former 'bases sequenced (MB)' times 1,000,000, and the key
\* 'bases sequenced (MB)' is in no row and not in the metadata table.
C6_BasesSequenced ==
    Derived =>
        /\ s_bases_sequenced_MB \notin DOMAIN qcml
        /\ \A s_name \in DOMAIN qcdata :
            /\ s_bases_sequenced_MB \notin DOMAIN qcdata[s_name]
            /\ s_bases_sequenced \in DOMAIN qcdata[s_name]
            /\ qcdata[s_name][s_bases_sequenced].num
            /\ qcdata[s_name][s_bases_sequenced].n
                   = qcdata0[s_name][s_bases_sequenced_MB].n * 1000000

\* two samples with 2.5 MB each are held as 2,500,000 bases
C6_Witness ==
    /\ pc = "done"
    /\ Cardinality(DOMAIN qcdata) = 2
    /\ \A s_name \in DOMAIN qcdata :
           qcdata[s_name][s_bases_sequenced] = FloatVal(2500000 * Scale)

\* C9: when __init__ ends with a KeyError, none of general_stats_addcols,
\* write_data_file, table.plot and add_section has been invoked.
C9_NoPartialResult ==
    err = "KeyError" => NoRenderCall

\* a KeyError raised by the last lookups there are, those of lines 150-163
C9_Witness ==
    /\ pc = "raised"
    /\ err = "KeyError"
    /\ headers # EmptyDict

\* the last element of qps that parse_qcml_by records under the name key
LastRecorded(qps, key) ==
    LET idx == {i \in 1..Len(qps) :
                    /\ ~ startswith(qps[i].attrib["value"], s_na)
                    /\ re_sub_percentage(qps[i].attrib["name"]) = key}
    IN  qps[CHOOSE i \in idx : \A j \in idx : j <= i]

----------------------------------------------------------------------------
(* Properties of parse_qcml_by (specification SpecParse).                  *)

\* the element is one parse_qcml_by(..., "qualityParameter") reads and skips
IsNa(e) ==
    e.tag = QualityParameter /\ startswith(e.attrib["value"], s_na)

\* the element is one parse_qcml_by(..., "qualityParameter") reads and keeps
IsUsable(e) ==
    e.tag = QualityParameter /\ ~ startswith(e.attrib["value"], s_na)

\* some element of the file has a usable value and is recorded as key
Records(file, key) ==
    \E j \in 1..Len(file) :
        IsUsable(file[j]) /\ re_sub_percentage(file[j].attrib["name"]) = key

\* the file read last for the sample
LastFileOf(s_name) ==
    LET idx == {i \in 1..Len(hist) : hist[i].s_name = s_name}
    IN  hist[CHOOSE i \in idx : \A j \in idx : j <= i].f

\* C3, as claimed: after any parse_qcml_by calls, a parameter whose value
\* begins with 'n/a' is in neither the value table of its sample nor the
\* metadata table, whatever other elements carry the same name.
C3_NaAbsentAsClaimed ==
    \A i \in 1..Len(hist) : \A j \in 1..Len(hist[i].f) :
        LET e == hist[i].f[j]
        IN  IsNa(e) =>
                \A key \in {e.attrib["name"], re_sub_percentage(e.attrib["name"])} :
                    /\ key \notin DOMAIN qcml
                    /\ key \notin DOMAIN qcdata[hist[i].s_name]

\* C3, amended: a parameter whose value begins with 'n/a' is in the value
\* table of its sample only if an element with a usable value has the same
\* name in the file read last for that sample, and in the metadata table only
\* if an element with a usable value has the same name in some file read.
C3_NaAbsent ==
    \A i \in 1..Len(hist) : \A j \in 1..Len(hist[i].f) :
        LET e   == hist[i].f[j]
            key == re_sub_percentage(e.attrib["name"])
        IN  IsNa(e) =>
                /\ key \in DOMAIN qcml =>
                       \E i2 \in 1..Len(hist) : Records(hist[i2].f, key)
                /\ key \in DOMAIN qcdata[hist[i].s_name] =>
                       Records(LastFileOf(hist[i].s_name), key)

\* one sample's file has 'X percent' with value n/a and nothing else, the
\* other sample's file has it with a usable value
C3_Witness ==
    /\ Len(hist) = 2
    /\ hist[1].s_name # hist[2].s_name
    /\ Len(hist[1].f) = 1
    /\ IsNa(hist[1].f[1])
    /\ hist[1].f[1].attrib["name"] = s_X_percent
    /\ s_X_percent \in DOMAIN qcml
    /\ s_X_percent \notin DOMAIN qcdata[hist[1].s_name]

\* parse_qcml_by has just recorded key in its result and in self.qcml
Recorded(key) ==
    key \in DOMAIN qcdata[f.s_name] /\ key \in DOMAIN qcml

AllKeys ==
    DOMAIN qcml \cup UNION {DOMAIN qcdata[s_name] : s_name \in DOMAIN qcdata}

\* C8, as claimed: a usable parameter named 'X percentage' is recorded as
\* 'X %' in the returned mapping and in the metadata table, no key ends in
\* ' percentage', and every other name is recorded unchanged.
C8_RenameAsClaimed ==
    f # NoFile =>
        /\ \A j \in 1..Len(f.f) :
            LET name == f.f[j].attrib["name"]
            IN  IsUsable(f.f[j]) =>
                    IF endswith(name, s_percentage)
                    THEN Recorded(SubSeq(name, 1, Len(name) - Len(s_percentage)) \o s_pct)
                    ELSE Recorded(name)
        /\ \A key \in AllKeys : ~ endswith(key, s_percentage)

\* C8, amended: as claimed, except that a name ending in ' percentage'
\* followed by one newline, 'X percentage\n', is recorded as 'X %\n'.
C8_Rename ==
    f # NoFile =>
        /\ \A j \in 1..Len(f.f) :
            LET name == f.f[j].attrib["name"]
                n    == Len(name)
                p    == Len(s_percentage)
            IN  IsUsable(f.f[j]) =>
                    IF endswith(name, s_percentage)
                    THEN Recorded(SubSeq(name, 1, n - p) \o s_pct)
                    ELSE IF endswith(name, s_percentage \o << "\n" >>)
                    THEN Recorded(SubSeq(name, 1, n - p - 1) \o s_pct \o << "\n" >>)
                    ELSE Recorded(name)
        /\ \A key \in AllKeys : ~ endswith(key, s_percentage)

\* one file with 'X percentage' and 'X percentage Y', both usable, recorded
\* as 'X %' and 'X percentage Y'
C8_Witness ==
    /\ f # NoFile
    /\ Len(f.f) = 2
    /\ f.f[1].attrib["name"] = s_X_percentage
    /\ f.f[2].attrib["name"] = s_X_percentage_Y
    /\ DOMAIN qcdata[f.s_name] = {s_X_pct, s_X_percentage_Y}
    /\ DOMAIN qcml = {s_X_pct, s_X_percentage_Y}

----------------------------------------------------------------------------
(* Property of get_read_type (specification SpecReadType).                 *)

\* C2: get_read_type returns 'paired-end' when both 'R1' and 'R2' occur among
\* the source-file values, 'single' when exactly one of them occurs, and
\* 'unknown' when neither does.
C2_ReadTypeBySubstrings ==
    pc = "read_type_done" =>
        LET source_files == collect_source_files(contents)
            r1 == \E i \in 1..Len(source_files) : contains(source_files[i], s_R1)
            r2 == \E i \in 1..Len(source_files) : contains(source_files[i], s_R2)
        IN  read_type = IF r1 /\ r2 THEN "paired-end"
                        ELSE IF r1 \/ r2 THEN "single"
                        ELSE "unknown"

----------------------------------------------------------------------------
(* Property of plot_idhist (specification SpecPlot).                       *)

\* C7: plot_data has two series, Reads then Bases; in each, every sample has
\* one entry, defined on exactly the union of the x-values of all samples;
\* its value at x is the sample's count at index 0 (Reads) or 1 (Bases) when
\* the sample has x, and 0 when it has not.
C7_IdhistSeries ==
    pc = "plotted" =>
        LET xs     == UNION {DOMAIN samples[s]["data"] : s \in DOMAIN samples}
            key(s) == s \o << ".", "C", "o", "u", "n", "t" >>
        IN  /\ Len(plot_data) = 2
            /\ \A i \in 1..2 :
                /\ DOMAIN plot_data[i] = {key(s) : s \in DOMAIN samples}
                /\ \A s \in DOMAIN samples :
                    /\ DOMAIN plot_data[i][key(s)] = xs
                    /\ \A x \in xs :
                        plot_data[i][key(s)][x] =
                            IF x \in DOMAIN samples[s]["data"]
                            THEN samples[s]["data"][x][i]
                            ELSE 0

\* one sample has an x-value the other has not, with unlike counts
C7_Witness ==
    /\ pc = "plotted"
    /\ \E s1 \in DOMAIN samples, s2 \in DOMAIN samples, x \in 1..MaxX :
        /\ x \in DOMAIN samples[s1]["data"]
        /\ samples[s1]["data"][x] = << 0, 1 >>
        /\ x \notin DOMAIN samples[s2]["data"]
        /\ DOMAIN samples[s2]["data"] # {}

====
